---- MODULE Spec2Model ----
(***************************************************************************)
(* Model of the audio-quality evaluator (src/app.py, src/evaluator.py).    *)
(*                                                                         *)
(* A caller invokes one of the module-level functions of one of the two    *)
(* source files: analyze_audio (the pipeline) or one of the three          *)
(* analyzers directly.  The decoded signal is described by its length      *)
(* audio_n, its sample rate and its content class.  Results of the         *)
(* numerical libraries (pyloudnorm, librosa, numpy, scipy) are values of   *)
(* the sets their contracts allow; the arithmetic the repository's own     *)
(* code performs on them (ranges, slices, ratios, means, percentiles,      *)
(* rounding, thresholds) is computed exactly, on rationals.                *)
(*                                                                         *)
(* Floating-point values are records [k, n, d]: k = "fin" is the rational  *)
(* n/d (d > 0), k = "nan", "ninf" are IEEE NaN and -infinity, k = "none"   *)
(* is Python's unset/None.                                                 *)
(*                                                                         *)
(* Library behaviour the model relies on:                                  *)
(*  - pyloudnorm: integrated_loudness raises ValueError for audio shorter  *)
(*    than the 0.4 s block and returns -inf when no block passes the gate; *)
(*  - librosa: stft raises ParameterError for a non-finite buffer,         *)
(*    util.frame raises ParameterError when the input is shorter than      *)
(*    frame_length;                                                        *)
(*  - numpy: percentile interpolates linearly; comparisons return numpy    *)
(*    bools, which json.dump (evaluator.py, no default=) cannot serialise. *)
(* evaluator.py uses Meter.loudness_range and librosa.effects.hilbert,     *)
(* which not every release of those libraries provides: each call either   *)
(* raises AttributeError or returns.                                       *)
(***************************************************************************)
EXTENDS Integers, Sequences, FiniteSets, TLC

\* ------------------------------------------------------------------ bounds
\* Longest signal, in seconds, handed to check_loudness / analyze_audio.
MaxSeconds == 5
\* Longest signal, in hops past the first frame, handed to the estimator.
MaxFrames == 3

\* ------------------------------------------------------- program constants
frame_length == 1024
hop_length == 512
n_fft == 1024
WindowSeconds == 3
BandLo == 4
BandHi == 20

\* ------------------------------------------------------------ float values
Fin(n, d) == [k |-> "fin", n |-> n, d |-> d]
NaN == [k |-> "nan", n |-> 0, d |-> 1]
NegInf == [k |-> "ninf", n |-> 0, d |-> 1]
None == [k |-> "none", n |-> 0, d |-> 1]

IsFin(v) == v.k = "fin"

\* IEEE comparison a < b: FALSE whenever a NaN is involved.
Lt(a, b) ==
  CASE a.k = "nan" \/ b.k = "nan" -> FALSE
    [] a.k = "ninf" -> b.k = "fin"
    [] b.k = "ninf" -> FALSE
    [] OTHER -> a.n * b.d < b.n * a.d

\* a - b for two percentiles, each finite (with a common denominator) or NaN.
Sub(a, b) == IF IsFin(a) /\ IsFin(b) THEN Fin(a.n - b.n, a.d) ELSE NaN

Pow10(e) == IF e = 0 THEN 1 ELSE IF e = 1 THEN 10 ELSE IF e = 2 THEN 100 ELSE 1000

\* Python's round(x, ndigits): to the nearest multiple of 10^-ndigits, ties
\* to even; NaN and infinities are returned unchanged.
round(v, ndigits) ==
  IF ~IsFin(v) THEN v
  ELSE LET s == Pow10(ndigits)
           x == v.n * s
           q == x \div v.d
           r == x % v.d
       IN  Fin(IF 2 * r < v.d THEN q
               ELSE IF 2 * r > v.d THEN q + 1
               ELSE IF q % 2 = 0 THEN q ELSE q + 1, s)

RECURSIVE Gcd(_, _)
Gcd(a, b) == IF b = 0 THEN a ELSE Gcd(b, a % b)

\* Sum of two finite non-negative rationals, in lowest terms.
RatAdd(a, b) ==
  LET n == a.n * b.d + b.n * a.d
      d == a.d * b.d
      g == Gcd(d, n)
  IN  Fin(n \div g, d \div g)

\* The builtin range(0, stop, step) as the sequence of its values.
PyRange0(stop, step) ==
  IF stop <= 0 THEN << >>
  ELSE [i \in 1..((stop + step - 1) \div step) |-> (i - 1) * step]


\* ------------------------------------------------------------------ inputs
Variants == {"app", "evaluator"}
Entries == {"analyze_audio", "check_loudness", "check_interruptions",
            "estimate_srmr_intelligibility"}
Analyzers == {"loudness", "interruptions", "intelligibility"}
\* MPEG sample rates the decoder reports (frame_rate).
SampleRates == {8000, 11025}
\* "silence": every sample 0.0; "sound": finite samples, not all zero;
\* "nan": a buffer holding a NaN sample.
Contents == {"silence", "sound", "nan"}

\* Signal lengths around the loudness block (0.4 s) and window (3 s, hop 1 s).
LoudLengths(r) ==
  {0, r \div 10, r \div 2}
    \cup {s * r + d : s \in WindowSeconds..MaxSeconds, d \in {-1, 0, 1}}

\* Signal lengths around the frame grid (1024 samples, hop 512).
FrameLengths ==
  {0, hop_length}
    \cup {frame_length + j * hop_length + d : j \in 0..MaxFrames, d \in {-1, 0, 1}}

InputLengths(e, r) ==
  IF e \in {"analyze_audio", "check_loudness"} THEN LoudLengths(r) ELSE FrameLengths

VARIABLES
  entry,                \* the function the caller invoked
  variant,              \* the source file it belongs to
  audio_n,              \* len(audio_data)
  sample_rate,
  content,              \* content class of audio_data
  pc,                   \* position of the call
  lufs, lra,            \* check_loudness results
  windows,              \* start indices i of the segments measured (app.py)
  loudness_values,      \* the per-window loudness list (app.py)
  power_db,             \* the dB spectrogram as a histogram <<[v, c], ...>>
  interruptions,        \* check_interruptions result
  frames,               \* start indices of the frames librosa.util.frame made
  modulation_energies,  \* per-frame ratios
  srmr_intel,           \* estimate_srmr_intelligibility result
  results,              \* << >> or <<report>>: analyze_audio's local dict
  returned,             \* << >> or <<report>>: what analyze_audio returned
  file,                 \* "absent" | "partial": analysis_result.json
  error,                \* exception that ended the call, or "none"
  failed_in,            \* the step that raised, or "none"
  completed             \* analyzers that returned normally

vars == <<entry, variant, audio_n, sample_rate, content, pc, lufs, lra, windows,
          loudness_values, power_db, interruptions, frames, modulation_energies,
          srmr_intel, results, returned, file, error, failed_in, completed>>

inputs == <<entry, variant, audio_n, sample_rate, content>>
loudness_vars == <<lufs, lra, windows, loudness_values>>
interruption_vars == <<power_db, interruptions>>
srmr_vars == <<frames, modulation_energies, srmr_intel>>
output_vars == <<results, returned, file>>

FirstStep(e) ==
  CASE e = "analyze_audio" -> "loudness"
    [] e = "check_loudness" -> "loudness"
    [] e = "check_interruptions" -> "interruptions"
    [] OTHER -> "intelligibility"

Init ==
  /\ entry \in Entries
  /\ variant \in Variants
  /\ sample_rate \in SampleRates
  /\ audio_n \in InputLengths(entry, sample_rate)
  /\ content \in (IF audio_n = 0 THEN {"silence"} ELSE Contents)
  /\ pc = FirstStep(entry)
  /\ lufs = None /\ lra = None /\ windows = << >> /\ loudness_values = << >>
  /\ power_db = << >> /\ interruptions = None
  /\ frames = << >> /\ modulation_energies = << >> /\ srmr_intel = None
  /\ results = << >> /\ returned = << >> /\ file = "absent"
  /\ error = "none" /\ failed_in = "none" /\ completed = {}

\* ------------------------------------------------------------ control flow
\* A variant of the pipeline that assembles the report right after the
\* interruption detector.
NextStepSkipping(v, step) ==
  CASE step = "loudness" -> "interruptions"
    [] step = "interruptions" -> "assemble"
    [] step = "intelligibility" -> "assemble"
    [] step = "assemble" -> IF v = "evaluator" THEN "write" ELSE "return"
    [] OTHER -> "return"

\* The statement order of analyze_audio.
NextStep(v, step) ==
  CASE step = "loudness" -> "interruptions"
    [] step = "interruptions" -> "intelligibility"
    [] step = "intelligibility" -> "assemble"
    [] step = "assemble" -> IF v = "evaluator" THEN "write" ELSE "return"
    [] OTHER -> "return"

\* Where control goes when an analyzer returns normally.
Continue(step) ==
  IF entry = "analyze_audio" THEN NextStep(variant, step) ELSE "returned"

\* An exception propagates out of the call: nothing catches it.
Raise(step, kind) ==
  /\ pc' = "raised"
  /\ error' = kind
  /\ failed_in' = step


\* --------------------------------------------------------- check_loudness
\* pyloudnorm's meter rejects audio shorter than its 0.4 s gating block.
TooShortForMeter(len, rate) == 10 * len < 4 * rate

\* Loudness values (LUFS) the meter reports for sound.
LufsLevels == {Fin(-30000, 1000), Fin(-23000, 1000), Fin(-17004, 1000)}

\* meter.integrated_loudness on a long enough segment: digital silence has
\* no block above the gate and measures 10*log10(0) = -inf; so does sound
\* whose blocks are all gated out.
MeterOutcomes(c) == IF c = "silence" THEN {NegInf} ELSE LufsLevels \cup {NegInf}

\* The same measure on one 3-second segment (a quiet and a loud level).
SegmentOutcomes(c) ==
  IF c = "silence" THEN {NegInf}
  ELSE {Fin(-30000, 1000), Fin(-17004, 1000), NegInf}

\* range(0, len(audio_data) - window_length, hop_size)
WindowStarts(len, rate) == PyRange0(len - WindowSeconds * rate, rate)

Le(a, b) == ~Lt(b, a)

RECURSIVE Insert(_, _)
Insert(x, s) ==
  IF s = << >> THEN <<x>>
  ELSE IF Le(x, Head(s)) THEN <<x>> \o s
  ELSE <<Head(s)>> \o Insert(x, Tail(s))

RECURSIVE Sorted(_)
Sorted(s) == IF s = << >> THEN << >> ELSE Insert(Head(s), Sorted(Tail(s)))

\* np.percentile(values, q), linear interpolation: the virtual index
\* (N-1)*q/100 lies between two sorted neighbours a and b, and the result is
\* a + (b - a) * t.  With a = -inf the difference b - a is NaN or +inf and
\* the result is NaN.
percentile(values, q) ==
  LET s == Sorted(values)
      N == Len(s)
      H == (N - 1) * q
      lo == H \div 100 + 1
      hi == IF lo + 1 > N THEN N ELSE lo + 1
      t == H % 100
      a == s[lo]
      b == s[hi]
  IN  IF ~IsFin(a) THEN NaN
      ELSE Fin(100 * a.n + t * (b.n - a.n), 100 * a.d)

\* lra of app.py: 95th minus 10th percentile of the window values, or 0.0
\* when there is no window.
LoudnessRange(values) ==
  IF values # << >>
  THEN Sub(percentile(values, 95), percentile(values, 10))
  ELSE Fin(0, 1)

\* meter.loudness_range, where the installed pyloudnorm provides it.
LraOutcomes == {Fin(0, 1), Fin(4996, 1000), Fin(12000, 1000)}

CheckLoudnessRaises ==
  /\ pc = "loudness"
  /\ \/ /\ TooShortForMeter(audio_n, sample_rate)
        /\ Raise("loudness", "ValueError")
     \/ /\ ~TooShortForMeter(audio_n, sample_rate)
        /\ variant = "evaluator"  \* a pyloudnorm whose Meter has no loudness_range
        /\ Raise("loudness", "AttributeError")
  /\ UNCHANGED <<inputs, lufs, lra, windows, loudness_values, interruption_vars,
                 srmr_vars, output_vars, completed>>

CheckLoudnessApp ==
  /\ pc = "loudness"
  /\ variant = "app"
  /\ ~TooShortForMeter(audio_n, sample_rate)
  /\ LET starts == WindowStarts(audio_n, sample_rate)
     IN  \E l \in MeterOutcomes(content) :
         \E values \in [1..Len(starts) -> SegmentOutcomes(content)] :
           /\ lufs' = l
           /\ windows' = starts
           /\ loudness_values' = values
           /\ lra' = LoudnessRange(values)
  /\ completed' = completed \cup {"loudness"}
  /\ pc' = Continue("loudness")
  /\ UNCHANGED <<inputs, interruption_vars, srmr_vars, output_vars, error,
                 failed_in>>

CheckLoudnessEvaluator ==
  /\ pc = "loudness"
  /\ variant = "evaluator"
  /\ ~TooShortForMeter(audio_n, sample_rate)
  /\ \E l \in MeterOutcomes(content) : lufs' = l
  /\ \E r \in LraOutcomes : lra' = r
  /\ completed' = completed \cup {"loudness"}
  /\ pc' = Continue("loudness")
  /\ UNCHANGED <<inputs, windows, loudness_values, interruption_vars,
                 srmr_vars, output_vars, error, failed_in>>

\* ----------------------------------------------------- check_interruptions
\* Number of bins of librosa.stft(audio_data, n_fft=1024): 1 + n_fft/2
\* frequencies by 1 + len/hop columns (centered, hop n_fft/4).
StftBins(len) == (1 + n_fft \div 2) * (1 + len \div (n_fft \div 4))

\* Shapes of the dB spectrogram amplitude_to_db(|S|, ref=np.max) returns:
\* values are at most 0 dB, the maximum bin is at 0 dB, the floor is -80 dB.
DbPatterns(c) == IF c = "silence" THEN {"flat"} ELSE {"peak", "dip", "fifth"}

DbHistogram(pat, total) ==
  CASE pat = "flat" -> <<[v |-> 0, c |-> total]>>
    [] pat = "peak" -> <<[v |-> 0, c |-> 1], [v |-> -80, c |-> total - 1]>>
    [] pat = "dip" -> <<[v |-> 0, c |-> total - 1], [v |-> -80, c |-> 1]>>
    [] OTHER -> <<[v |-> 0, c |-> total \div 5 + 1],
                  [v |-> -40, c |-> total - total \div 5 - 1]>>

RECURSIVE SumDb(_)
SumDb(h) == IF h = << >> THEN 0 ELSE Head(h).v * Head(h).c + SumDb(Tail(h))

RECURSIVE size(_)
size(h) == IF h = << >> THEN 0 ELSE Head(h).c + size(Tail(h))

\* Counting the bins at or above the mean.
RECURSIVE above_mean_or_equal(_, _, _)
above_mean_or_equal(h, sum, total) ==
  IF h = << >> THEN 0
  ELSE (IF Head(h).v * total >= sum THEN Head(h).c ELSE 0)
         + above_mean_or_equal(Tail(h), sum, total)

\* np.sum(power_db > mean_power), with mean_power = sum / total.
RECURSIVE above_mean(_, _, _)
above_mean(h, sum, total) ==
  IF h = << >> THEN 0
  ELSE (IF Head(h).v * total > sum THEN Head(h).c ELSE 0)
         + above_mean(Tail(h), sum, total)

CheckInterruptionsRaises ==
  /\ pc = "interruptions"
  /\ \/ /\ content = "nan"      \* librosa.stft: buffer not finite everywhere
        /\ Raise("interruptions", "ParameterError")
     \/ /\ audio_n = 0          \* the reflect padding of an empty buffer
        /\ Raise("interruptions", "ValueError")
  /\ UNCHANGED <<inputs, loudness_vars, interruption_vars, srmr_vars,
                 output_vars, completed>>

CheckInterruptions ==
  /\ pc = "interruptions"
  /\ content # "nan"
  /\ audio_n > 0
  /\ \E pat \in DbPatterns(content) :
       LET h == DbHistogram(pat, StftBins(audio_n))
           total_bins == size(h)
       IN  /\ power_db' = h
           /\ interruptions' = Fin(above_mean(h, SumDb(h), total_bins), total_bins)
  /\ completed' = completed \cup {"interruptions"}
  /\ pc' = Continue("interruptions")
  /\ UNCHANGED <<inputs, loudness_vars, srmr_vars, output_vars, error, failed_in>>


\* ------------------------------------------- estimate_srmr_intelligibility
Eps == 1   \* the 1e-6 of the denominator; magnitudes are in units of 1e-6

\* librosa.util.frame: 1 + (len - frame_length) // hop_length frames, frame
\* k starting at k * hop_length; the caller guards len >= frame_length.
frame_dropping_last(len) ==
  [k \in 1..((len - frame_length) \div hop_length) |-> (k - 1) * hop_length]

frame(len) ==
  [k \in 1..(1 + (len - frame_length) \div hop_length) |-> (k - 1) * hop_length]

\* Modulation spectra |rfft(|hilbert(frame)|)| of sound, as the non-zero
\* bins <<[bin, mag], ...>> of the 513: a DC term and one modulation peak.
Spectra ==
  << <<[bin |-> 0, mag |-> 10], [bin |-> 4, mag |-> 5]>>,
     <<[bin |-> 0, mag |-> 10], [bin |-> 19, mag |-> 8]>>,
     <<[bin |-> 0, mag |-> 10], [bin |-> 20, mag |-> 8]>>,
     <<[bin |-> 0, mag |-> 1], [bin |-> 3, mag |-> 1], [bin |-> 12, mag |-> 16]>> >>

\* The spectrum of frame k (from 1): all zero for silence.
modulation_spectrum(c, shift, k) ==
  IF c = "silence" THEN << >> ELSE Spectra[((shift + k) % Len(Spectra)) + 1]

\* np.sum(spectrum[lo:hi])
RECURSIVE SumSlice(_, _, _)
SumSlice(sp, lo, hi) ==
  IF sp = << >> THEN 0
  ELSE (IF lo <= Head(sp).bin /\ Head(sp).bin < hi THEN Head(sp).mag ELSE 0)
         + SumSlice(Tail(sp), lo, hi)

\* The ratio turned upside down.
modulation_energy_inverted(sp) ==
  Fin(SumSlice(sp, 0, 1 + frame_length \div 2), SumSlice(sp, BandLo, BandHi) + Eps)

\* np.sum(spectrum[4:20]) / (np.sum(spectrum) + 1e-6)
modulation_energy(sp) ==
  Fin(SumSlice(sp, BandLo, BandHi), SumSlice(sp, 0, 1 + frame_length \div 2) + Eps)

\* Sum of es[lo..hi], halving the range as numpy's pairwise summation does.
RECURSIVE SumRat(_, _, _)
SumRat(es, lo, hi) ==
  IF lo > hi THEN Fin(0, 1)
  ELSE IF lo = hi THEN es[lo]
  ELSE LET mid == (lo + hi) \div 2
       IN  RatAdd(SumRat(es, lo, mid), SumRat(es, mid + 1, hi))

\* np.mean of a non-empty list of ratios; NaN as soon as one is NaN.
mean(es) ==
  IF \E i \in 1..Len(es) : ~IsFin(es[i]) THEN NaN
  ELSE LET t == SumRat(es, 1, Len(es)) IN Fin(t.n, t.d * Len(es))

EstimateSrmrRaises ==
  /\ pc = "intelligibility"
  /\ \/ /\ audio_n < frame_length   \* librosa.util.frame: input is too short
        /\ Raise("intelligibility", "ParameterError")
        /\ UNCHANGED frames
     \/ /\ audio_n >= frame_length
        /\ variant = "evaluator"    \* a librosa without effects.hilbert
        /\ frames' = frame(audio_n)
        /\ Raise("intelligibility", "AttributeError")
  /\ UNCHANGED <<inputs, loudness_vars, interruption_vars, modulation_energies,
                 srmr_intel, output_vars, completed>>

EstimateSrmr ==
  /\ pc = "intelligibility"
  /\ audio_n >= frame_length
  /\ LET fr == frame(audio_n)
     IN  \E shift \in 0..(Len(Spectra) - 1) :
           LET es == [k \in 1..Len(fr) |->
                        IF content = "nan" THEN NaN
                        ELSE modulation_energy(modulation_spectrum(content, shift, k))]
           IN  /\ frames' = fr
               /\ modulation_energies' = es
               /\ srmr_intel' = mean(es)
  /\ completed' = completed \cup {"intelligibility"}
  /\ pc' = Continue("intelligibility")
  /\ UNCHANGED <<inputs, loudness_vars, interruption_vars, output_vars, error,
                 failed_in>>

\* ----------------------------------------------------------- analyze_audio
lufs_acceptable(v) == Lt(Fin(-27, 1), v) /\ Lt(v, Fin(-17, 1))
lra_acceptable(v) == Lt(v, Fin(5, 1))
interruptions_acceptable(v) == Lt(Fin(2, 10), v)
srmr_acceptable(v) == Lt(Fin(35, 10), v)

\* The report with every verdict taken on the rounded value.
report_from_rounded(l, r, i, s) ==
  [lufs |-> [value |-> round(l, 2), acceptable |-> lufs_acceptable(round(l, 2))],
   lufs_range |-> [value |-> round(r, 2), acceptable |-> lra_acceptable(round(r, 2))],
   interruptions |-> [value |-> round(i, 3),
                      acceptable |-> interruptions_acceptable(round(i, 3))],
   srmr |-> [value |-> round(s, 2), acceptable |-> srmr_acceptable(round(s, 2))]]

\* The results dict: each value rounded, each verdict taken on the metric.
report(l, r, i, s) ==
  [lufs |-> [value |-> round(l, 2), acceptable |-> lufs_acceptable(l)],
   lufs_range |-> [value |-> round(r, 2), acceptable |-> lra_acceptable(r)],
   interruptions |-> [value |-> round(i, 3), acceptable |-> interruptions_acceptable(i)],
   srmr |-> [value |-> round(s, 2), acceptable |-> srmr_acceptable(s)]]

Assemble ==
  /\ pc = "assemble"
  /\ results' = <<report(lufs, lra, interruptions, srmr_intel)>>
  /\ pc' = NextStep(variant, "assemble")
  /\ UNCHANGED <<inputs, loudness_vars, interruption_vars, srmr_vars, returned,
                 file, error, failed_in, completed>>

\* evaluator.py: open(output_json_path, 'w') creates the file, then json.dump
\* meets the first verdict, a numpy bool, which it cannot serialise.
WriteJson ==
  /\ pc = "write"
  /\ file' = "partial"
  /\ Raise("write", "TypeError")
  /\ UNCHANGED <<inputs, loudness_vars, interruption_vars, srmr_vars, results,
                 returned, completed>>

Return ==
  /\ pc = "return"
  /\ returned' = results
  /\ pc' = "returned"
  /\ UNCHANGED <<inputs, loudness_vars, interruption_vars, srmr_vars, results,
                 file, error, failed_in, completed>>

Next ==
  \/ CheckLoudnessRaises
  \/ CheckLoudnessApp
  \/ CheckLoudnessEvaluator
  \/ CheckInterruptionsRaises
  \/ CheckInterruptions
  \/ EstimateSrmrRaises
  \/ EstimateSrmr
  \/ Assemble
  \/ WriteJson
  \/ Return

Spec == Init /\ [][Next]_vars


\* ------------------------------------------------------------------ claims
Abs(x) == IF x < 0 THEN -x ELSE x

\* v is the finite rational strictly between lo and hi (integers).
StrictlyBetween(v, lo, hi) == IsFin(v) /\ lo * v.d < v.n /\ v.n < hi * v.d
\* v is -inf or a finite rational below the integer hi.
Below(v, hi) == v.k = "ninf" \/ (IsFin(v) /\ v.n < hi * v.d)
\* v is finite and above the rational pn/pd.
Above(v, pn, pd) == IsFin(v) /\ v.n * pd > pn * v.d
\* shown is raw rounded to `digits` decimals: a multiple of 10^-digits at
\* distance at most half a step (a non-finite raw is shown unchanged).
ShownRounded(shown, raw, digits) ==
  IF ~IsFin(raw) THEN shown = raw
  ELSE /\ IsFin(shown)
       /\ shown.d = Pow10(digits)
       /\ 2 * Abs(shown.n * raw.d - raw.n * shown.d) <= raw.d

\* C1 as stated: in every report analyze_audio returns, each metric's
\* 'acceptable' flag is true exactly when the reported (rounded) 'value'
\* satisfies the metric's threshold.
C1_FlagsFollowReportedValues ==
  \A i \in 1..Len(returned) :
    LET r == returned[i]
    IN  /\ r.lufs.acceptable <=> StrictlyBetween(r.lufs.value, -27, -17)
        /\ r.lufs_range.acceptable <=> Below(r.lufs_range.value, 5)
        /\ r.interruptions.acceptable <=> Above(r.interruptions.value, 2, 10)
        /\ r.srmr.acceptable <=> Above(r.srmr.value, 35, 10)

\* C1 amended: in every report analyze_audio returns, each metric's
\* 'acceptable' flag is true exactly when the metric as measured (before
\* rounding) satisfies its threshold, and the reported 'value' is that
\* metric rounded to 2 decimals (3 for Interruptions).
C1_FlagsFollowMeasuredValues ==
  \A i \in 1..Len(returned) :
    LET r == returned[i]
    IN  /\ r.lufs.acceptable <=> StrictlyBetween(lufs, -27, -17)
        /\ r.lufs_range.acceptable <=> Below(lra, 5)
        /\ r.interruptions.acceptable <=> Above(interruptions, 2, 10)
        /\ r.srmr.acceptable <=> Above(srmr_intel, 35, 10)
        /\ ShownRounded(r.lufs.value, lufs, 2)
        /\ ShownRounded(r.lufs_range.value, lra, 2)
        /\ ShownRounded(r.interruptions.value, interruptions, 3)
        /\ ShownRounded(r.srmr.value, srmr_intel, 2)

\* A returned report whose LUFS is acceptable as measured while its rounded
\* value sits on the threshold, and whose interruption ratio likewise.
C1_Witness ==
  /\ returned # << >>
  /\ returned[1].lufs.acceptable
  /\ ~StrictlyBetween(returned[1].lufs.value, -27, -17)
  /\ returned[1].interruptions.acceptable
  /\ ~Above(returned[1].interruptions.value, 2, 10)

\* C2 as stated: once check_loudness (app.py) has been applied to a non-empty
\* signal shorter than one 3-second window, it has returned, not raised, and
\* the loudness range is exactly 0.0.
C2_ShortSignalRangeZero ==
  (/\ variant = "app"
   /\ entry = "check_loudness"
   /\ 0 < audio_n /\ audio_n < 3 * sample_rate
   /\ pc # "loudness")
    => (pc = "returned" /\ lra = Fin(0, 1))

\* C3 as stated: analysis of an empty buffer or of a buffer holding a
\* non-finite sample ends, before any analyzer has run, with the
\* InvalidInput error and without a report.
C3_InvalidInputRejectedFirst ==
  (/\ entry = "analyze_audio"
   /\ (audio_n = 0 \/ content = "nan")
   /\ pc # "loudness")
    => /\ pc = "raised"
       /\ error = "InvalidInput"
       /\ failed_in \notin Analyzers
       /\ completed = {}
       /\ results = << >>

\* C4 as stated: analysis (app.py) of a silent signal of at least one window
\* raises nothing, and its report holds a finite LUFS below -27 that is not
\* acceptable and a loudness range of exactly 0.0.
C4_SilenceFiniteReport ==
  (/\ variant = "app"
   /\ entry = "analyze_audio"
   /\ content = "silence"
   /\ audio_n >= 3 * sample_rate)
    => /\ pc # "raised"
       /\ \A i \in 1..Len(results) :
            /\ IsFin(results[i].lufs.value)
            /\ results[i].lufs.value.n < -27 * results[i].lufs.value.d
            /\ ~results[i].lufs.acceptable
            /\ IsFin(results[i].lufs_range.value)
            /\ results[i].lufs_range.value.n = 0

\* C5 as stated: estimate_srmr_intelligibility (app.py) applied to a
\* non-empty signal of finite samples shorter than one 1024-sample frame
\* returns 0.0 and does not raise; and whenever it returns for finite samples
\* the score is a number >= 0.
C5_ShortInputSentinel ==
  (/\ variant = "app"
   /\ entry = "estimate_srmr_intelligibility"
   /\ content # "nan"
   /\ audio_n > 0
   /\ pc # "intelligibility")
    => /\ audio_n < 1024 => (pc = "returned" /\ IsFin(srmr_intel) /\ srmr_intel.n = 0)
       /\ pc = "returned" => (IsFin(srmr_intel) /\ srmr_intel.n >= 0)

\* Total count of the histogram entries h[i] with i in S.
RECURSIVE BinsIn(_, _)
BinsIn(h, S) ==
  IF S = {} THEN 0
  ELSE LET i == CHOOSE j \in S : TRUE IN h[i].c + BinsIn(h, S \ {i})

\* Sum of the dB values of all bins.
RECURSIVE DbTotal(_, _)
DbTotal(h, S) ==
  IF S = {} THEN 0
  ELSE LET i == CHOOSE j \in S : TRUE IN h[i].v * h[i].c + DbTotal(h, S \ {i})

\* C6: once check_interruptions has returned, its result is the number of
\* bins whose dB value is strictly greater than the mean dB value, divided
\* by the number of bins; it lies in [0, 1]; it is 0 when all bins have the
\* same dB value.
C6_RatioOfBinsAboveMean ==
  "interruptions" \in completed =>
    LET I == DOMAIN power_db
        T == BinsIn(power_db, I)
        M == DbTotal(power_db, I)     \* the mean is M / T
        A == BinsIn(power_db, {i \in I : power_db[i].v * T > M})
    IN  /\ T = StftBins(audio_n)
        /\ interruptions = Fin(A, T)
        /\ 0 <= interruptions.n /\ interruptions.n <= interruptions.d
        /\ (\A i, j \in I : power_db[i].v = power_db[j].v) => interruptions.n = 0

\* check_interruptions has returned 0 for a spectrogram of equal bins.
C6_Witness ==
  /\ "interruptions" \in completed
  /\ \A i, j \in DOMAIN power_db : power_db[i].v = power_db[j].v
  /\ interruptions = Fin(0, StftBins(audio_n))


\* C7: in analyze_audio, a report exists (assembled or returned) and the
\* result file is touched only after all three analyzers have returned
\* normally; when an analyzer raises, the call ends there with no report,
\* full or partial, and no file.
C7_FailFastNoPartialReport ==
  entry = "analyze_audio" =>
    /\ (results # << >> \/ returned # << >> \/ file # "absent")
         => (completed = Analyzers /\ failed_in \notin Analyzers)
    /\ failed_in \in Analyzers
         => (pc = "raised" /\ results = << >> /\ returned = << >> /\ file = "absent")
    /\ pc \in {"assemble", "write", "return", "returned"} => completed = Analyzers

\* analyze_audio has ended in the second or third analyzer, after an earlier
\* analyzer had returned normally.
C7_Witness ==
  /\ entry = "analyze_audio"
  /\ pc = "raised"
  /\ failed_in \in {"interruptions", "intelligibility"}
  /\ completed # {}

\* C8 as stated: check_loudness (app.py), applied to finite samples, measures
\* exactly the windows starting at k * sample_rate for every k >= 0 with
\* k * sample_rate + 3 * sample_rate <= len(audio_data).
C8_EveryFullWindowMeasured ==
  (variant = "app" /\ content # "nan" /\ "loudness" \in completed) =>
    {windows[i] : i \in DOMAIN windows}
      = {k * sample_rate : k \in {j \in 0..(MaxSeconds + 1) :
                                    j * sample_rate + 3 * sample_rate <= audio_n}}

\* The frame grid of the claim: frame k (from 0) starts at 512 * k, and the
\* frames are all k with 512 * k + 1024 <= len.
FrameGridAsClaimed ==
  /\ \A i \in DOMAIN frames : frames[i] = 512 * (i - 1)
  /\ {frames[i] : i \in DOMAIN frames}
       = {512 * k : k \in {j \in 0..(audio_n \div 512) : 512 * j + 1024 <= audio_n}}

\* Samples shared by frames i and i + 1, each 1024 long.
Overlap(i) == frames[i] + 1024 - frames[i + 1]

\* C9 as stated: the frames are 1024 long with starts 512 apart, every full
\* frame is used, and consecutive frames overlap by 75% of the frame length.
C9_FramesOverlapThreeQuarters ==
  "intelligibility" \in completed =>
    /\ FrameGridAsClaimed
    /\ \A i \in 1..(Len(frames) - 1) : 100 * Overlap(i) = 75 * 1024

\* C9 amended: the frames are 1024 long with starts 512 apart, so that
\* consecutive frames overlap by 50% of the frame length (512 samples);
\* every full frame that fits is used (frame k covers samples 512*k ..
\* 512*k + 1023 for all k with 512*k + 1024 <= n) and a trailing partial
\* frame is discarded.
C9_FramesOverlapHalf ==
  "intelligibility" \in completed =>
    /\ FrameGridAsClaimed
    /\ \A i \in 1..(Len(frames) - 1) : 100 * Overlap(i) = 50 * 1024
    /\ \A i \in DOMAIN frames : frames[i] + 1023 < audio_n
    /\ Len(modulation_energies) = Len(frames)

\* The estimator has returned for a signal of several frames that ends in a
\* partial frame.
C9_Witness ==
  /\ "intelligibility" \in completed
  /\ content = "sound"
  /\ Len(frames) >= 2
  /\ (audio_n - 1024) % 512 # 0

\* C10: for finite samples every per-frame modulation energy ratio lies in
\* [0, 1) and so does the score; and no report, for any input, rates the
\* intelligibility acceptable.
C10_IntelligibilityNeverAcceptable ==
  /\ ("intelligibility" \in completed /\ content # "nan") =>
       /\ \A i \in DOMAIN modulation_energies :
            LET e == modulation_energies[i]
            IN  IsFin(e) /\ 0 <= e.n /\ e.n < e.d
       /\ IsFin(srmr_intel) /\ 0 <= srmr_intel.n /\ srmr_intel.n < srmr_intel.d
  /\ \A i \in 1..Len(results) : ~results[i].srmr.acceptable
  /\ \A i \in 1..Len(returned) : ~returned[i].srmr.acceptable

\* analyze_audio has returned a report for sound of at least one frame with
\* a positive score.
C10_Witness ==
  /\ returned # << >>
  /\ content = "sound"
  /\ Len(frames) >= 1
  /\ srmr_intel.n > 0

====
